---- MODULE Spec2Model ----
(***************************************************************************)
(* Model of vpn_monitor.py: the Sentry polling loop that runs a fixed list *)
(* of commands only while the VPN is connected.                            *)
(*                                                                         *)
(* The Sentry is one thread.  Its position is pc; every call it makes to   *)
(* an external command (nordvpn, ps, Popen, os.kill) is one step, so that  *)
(* the operating system (processes starting, exiting and being reaped by   *)
(* somebody else) can move between two of its steps.  An external command  *)
(* that cannot be executed raises out of loop() into the finally clause of *)
(* run(), as it does in Python: the source catches no exception.           *)
(***************************************************************************)
EXTENDS Integers, Sequences, FiniteSets, TLC

\* Size of the pid space of the modelled process table.
MaxPid == 2

Pids == 1..MaxPid

\* Sentry.__init__: self.command_list
command_list == <<"deluged", "deluge-web">>

Cmds == {command_list[i] : i \in 1..Len(command_list)}

\* One line of `ps -x` that names a managed command: the command it
\* contains, whether its details carry "<defunct>", and whether the process
\* is a child of the Sentry (spawned by its Popen, so that only the Sentry's
\* wait() removes its zombie).
NoProc == [cmd |-> "none", defunct |-> FALSE, child |-> FALSE]

Entry(c, d, ch) == [cmd |-> c, defunct |-> d, child |-> ch]

IsLive(e) == e # NoProc /\ ~e.defunct

VARIABLES
  table,        \* the OS process table: pid -> entry or NoProc
  processes,    \* self.processes: dict, key -> pid of the Popen handle stored
  connected,    \* the local `connected` of loop()
  pc,           \* position of the Sentry
  caller,       \* the method that called parse_ps
  shutdown,     \* TRUE once the finally clause of run() has started
  found,        \* parse_ps: processes_found still to be handled
  command_pids, \* parse_ps: the matches kept so far, in insertion order
  todo,         \* run_commands: commands of command_list still to visit
  killq,        \* kill_processes: pids still to be signalled, in loop order
  probe,        \* what check_vpn returned in this tick ("none" before)
  edge,         \* the edge message printed by this tick ("none" if none)
  liveAtPs,     \* entries that were live when this call's `ps -x` ran
  listed,       \* pids parse_ps returned to this kill_processes call
  signaled,     \* pids this kill_processes call has passed to os.kill
  launched,     \* command -> number of Popen calls issued in this tick
  err,          \* what raised out of loop() ("none" while it runs)
  kills,        \* number of times the finally clause called kill_processes
  lastProbe,    \* what check_vpn returned in the tick before this one
  quiet,        \* consecutive kill_processes calls whose listing was empty
  stdout        \* captured output of the command under study (pure checks)

vars == <<table, processes, connected, pc, caller, shutdown, found,
          command_pids, todo, killq, probe, edge, liveAtPs, listed,
          signaled, launched, err, kills, lastProbe, quiet, stdout>>

loopVars == <<processes, connected, pc, caller, shutdown, found, command_pids,
              todo, killq, probe, edge, liveAtPs, listed, signaled,
              launched, err, kills, lastProbe, quiet, stdout>>

NoLaunch == [c \in Cmds |-> 0]

\* Python dict operations on self.processes.
EmptyDict == [k \in {} |-> 0]

DictSet(d, k, v) == [x \in DOMAIN d \cup {k} |-> IF x = k THEN v ELSE d[x]]

\* A pop that is forgotten: the dict keeps the key.
DictKeep(d, k) == d

DictPop(d, k) == [x \in DOMAIN d \ {k} |-> d[x]]

(***************************************************************************)
(* Pure helpers                                                            *)
(***************************************************************************)

\* check_vpn: "Connected" in groups, where groups is the word captured by
\* r"Status: (\w+)" or () when nothing matches ("NoMatch").
StatusWords == {"Connected", "Disconnected", "Connecting", "NoMatch"}

check_vpn(word) == word = "Connected"

\* parse_ps, first loop: the matching lines of `ps -x` in output order
\* (ascending pid), as (cmd, pid, defunct) tuples.
RECURSIVE PsFrom(_, _)
PsFrom(t, p) ==
  IF p > MaxPid THEN <<>>
  ELSE (IF t[p] # NoProc /\ t[p].cmd \in Cmds
          THEN <<[cmd |-> t[p].cmd, pid |-> p, defunct |-> t[p].defunct]>>
          ELSE <<>>) \o PsFrom(t, p + 1)

processes_found(t) == PsFrom(t, 1)

\* The branch parse_ps takes for one tuple: reap through the owned handle.
IsReap(m, procs) == m.defunct /\ m.cmd \in DOMAIN procs

\* Keys of the dict command_pids in insertion order.
RECURSIVE Keys(_)
Keys(s) ==
  IF s = <<>> THEN <<>>
  ELSE <<Head(s).cmd>> \o Keys(SelectSeq(Tail(s), LAMBDA m : m.cmd # Head(s).cmd))

PidsOf(s, k) ==
  LET sel == SelectSeq(s, LAMBDA m : m.cmd = k)
  IN [i \in 1..Len(sel) |-> sel[i].pid]

\* A kill_processes that signals every pid of the table, listed or not.
KillFromAllPids(s, ks) == [i \in 1..MaxPid |-> i]

\* kill_processes: `for cmd in command_pids: for pid in command_pids[cmd]`.
RECURSIVE KillFrom(_, _)
KillFrom(s, ks) ==
  IF ks = <<>> THEN <<>> ELSE PidsOf(s, Head(ks)) \o KillFrom(s, Tail(ks))

\* A kill_processes that signals pid 1 whatever the listing holds.
KillOrderAndPidOne(s) == <<1>> \o KillFrom(s, Keys(s))

KillOrder(s) == KillFrom(s, Keys(s))

\* run_commands that never consults the listing: nothing counts as running.
running_cmds_none(s) == {}

running_cmds(s) == {s[i].cmd : i \in 1..Len(s)}

SeqSet(s) == {s[i] : i \in 1..Len(s)}

LiveEntries(t) == {[pid |-> p, cmd |-> t[p].cmd] : p \in {q \in Pids : IsLive(t[q])}}

\* What is left in the table when a live process dies: a child of the Sentry
\* stays as a zombie until the Sentry waits for it; another process is
\* either reaped by its own parent at once or stays defunct for a while.
\* A process table that drops every dead process at once, the Sentry's
\* unwaited children included.
DieVanish(e) == {NoProc}

Die(e) ==
  IF e.child THEN {[e EXCEPT !.defunct = TRUE]}
  ELSE {NoProc, [e EXCEPT !.defunct = TRUE]}

(***************************************************************************)
(* Initial state: Sentry() has been constructed and run() is about to call *)
(* loop(); the process table holds no managed command yet (processes of    *)
(* other origin appear through EnvSpawn).                                  *)
(***************************************************************************)
Init ==
  /\ table = [p \in Pids |-> NoProc]
  /\ processes = EmptyDict
  /\ connected = FALSE
  /\ pc = "check"
  /\ caller = "none"
  /\ shutdown = FALSE
  /\ found = <<>>
  /\ command_pids = <<>>
  /\ todo = <<>>
  /\ killq = <<>>
  /\ probe = "none"
  /\ edge = "none"
  /\ liveAtPs = {}
  /\ listed = {}
  /\ signaled = {}
  /\ launched = NoLaunch
  /\ err = "none"
  /\ kills = 0
  /\ lastProbe = "none"
  /\ quiet = 0
  /\ stdout = <<>>

(***************************************************************************)
(* run(): try: self.loop() finally: self.kill_processes()                  *)
(***************************************************************************)

\* run() without its try/finally: every exception leaves run() at once.
RaiseTargetNoFinally(inFinally) == "done"

\* Where an exception goes: raised inside loop() it enters the finally
\* clause; raised inside the finally clause it leaves run().
RaiseTarget(inFinally) == IF inFinally THEN "done" ELSE "finally"

Raise(e) ==
  /\ pc' = RaiseTarget(shutdown)
  /\ err' = IF shutdown THEN err ELSE e

\* The locals of a finished call and the record of a finished tick are dropped.
ClearCall ==
  /\ found' = <<>> /\ command_pids' = <<>> /\ todo' = <<>> /\ killq' = <<>>
  /\ liveAtPs' = {} /\ listed' = {} /\ signaled' = {}

ClearTick ==
  /\ ClearCall
  /\ probe' = "none" /\ edge' = "none" /\ launched' = NoLaunch

\* A loop() whose disconnected branch sleeps instead of calling connect_vpn.
AfterKillSleeps == IF shutdown THEN "done" ELSE "sleep"

\* After kill_processes returns: loop() goes on to connect_vpn, run() ends.
AfterKill == IF shutdown THEN "done" ELSE "connect"

\* finally: print("Loop terminated."); self.kill_processes()
Finally ==
  /\ pc = "finally"
  /\ shutdown' = TRUE
  /\ kills' = kills + 1
  /\ caller' = "kill_processes"
  /\ pc' = "parse_ps"
  /\ ClearTick
  /\ connected' = FALSE
  /\ UNCHANGED <<table, processes, err>>
  /\ lastProbe' = "none"
  /\ UNCHANGED <<quiet, stdout>>

\* KeyboardInterrupt delivered while loop() runs (the one shutdown signal
\* that Python turns into an exception).
Interrupt ==
  /\ pc \notin {"finally", "done"}
  /\ ~shutdown
  /\ Raise("interrupt")
  /\ UNCHANGED <<table, processes, connected, caller, shutdown, found,
                 command_pids, todo, killq, probe, edge, liveAtPs, listed,
                 signaled, launched, kills>>
  /\ UNCHANGED <<lastProbe, quiet, stdout>>

(***************************************************************************)
(* loop(): one tick starts with check_vpn                                  *)
(***************************************************************************)
\* check_vpn() returned: the branch of loop() it selects, and the edge
\* message printed when `connected` changes.
\* A tick that forgets `connected = True/False` when it prints.
ProbeKeepsFlag(word) ==
  /\ pc = "check"
  /\ LET r == check_vpn(word) IN
       /\ probe' = IF r THEN "connected" ELSE "disconnected"
       /\ edge' = IF r /\ ~connected THEN "connect"
                  ELSE IF ~r /\ connected THEN "disconnect" ELSE "none"
       /\ caller' = IF r THEN "run_commands" ELSE "kill_processes"
  /\ pc' = "parse_ps"
  /\ UNCHANGED <<table, processes, connected, shutdown, found, command_pids,
                 todo, killq, liveAtPs, listed, signaled, launched, err, kills>>
  /\ UNCHANGED <<lastProbe, quiet, stdout>>

Probe(word) ==
  /\ pc = "check"
  /\ LET r == check_vpn(word) IN
       /\ probe' = IF r THEN "connected" ELSE "disconnected"
       /\ edge' = IF r /\ ~connected THEN "connect"
                  ELSE IF ~r /\ connected THEN "disconnect" ELSE "none"
       /\ connected' = r
       /\ caller' = IF r THEN "run_commands" ELSE "kill_processes"
  /\ pc' = "parse_ps"
  /\ UNCHANGED <<table, processes, shutdown, found, command_pids, todo,
                 killq, liveAtPs, listed, signaled, launched, err, kills>>
  /\ UNCHANGED <<lastProbe, quiet, stdout>>

\* subprocess.run(['nordvpn', 'status']) cannot be executed and raises
ProbeRaise ==
  /\ pc = "check"
  /\ probe' = "failed"
  /\ Raise("probe")
  /\ UNCHANGED <<table, processes, connected, caller, shutdown, found,
                 command_pids, todo, killq, edge, liveAtPs, listed, signaled,
                 launched, kills>>
  /\ UNCHANGED <<lastProbe, quiet, stdout>>

CheckVpn ==
  \/ \E word \in StatusWords : Probe(word)
  \/ ProbeRaise

(***************************************************************************)
(* parse_ps()                                                              *)
(***************************************************************************)
\* result = subprocess.run(['ps', '-x']) and the first loop over its lines
ParsePsOk ==
  /\ pc = "parse_ps"
  /\ liveAtPs' = LiveEntries(table)
  /\ found' = processes_found(table)
  /\ command_pids' = <<>>
  /\ pc' = "found"
  /\ UNCHANGED <<table, processes, connected, caller, shutdown, todo, killq,
                 probe, edge, listed, signaled, launched, err, kills>>
  /\ quiet' = IF caller = "kill_processes" /\ (\A p \in Pids : table[p] = NoProc)
                THEN (IF quiet < 2 THEN quiet + 1 ELSE 2) ELSE 0
  /\ UNCHANGED <<lastProbe, stdout>>

\* `ps` cannot be executed and subprocess.run raises
ParsePsRaise ==
  /\ pc = "parse_ps"
  /\ liveAtPs' = LiveEntries(table)
  /\ Raise("ps")
  /\ UNCHANGED <<table, processes, connected, caller, shutdown, found,
                 command_pids, todo, killq, probe, edge, listed, signaled,
                 launched, kills>>
  /\ quiet' = 0
  /\ UNCHANGED <<lastProbe, stdout>>

ParsePs == ParsePsOk \/ ParsePsRaise

\* One pass of the second loop.  Popen.wait() returns once the process of
\* the handle has exited, and collects that process.
HandleFound ==
  /\ pc = "found"
  /\ found # <<>>
  /\ LET m == Head(found) IN
       IF IsReap(m, processes)
         THEN LET h == processes[m.cmd] IN
              /\ ~IsLive(table[h])
              /\ table' = [table EXCEPT ![h] = NoProc]
              /\ processes' = DictPop(processes, m.cmd)
              /\ UNCHANGED command_pids
         ELSE /\ command_pids' = Append(command_pids, [cmd |-> m.cmd, pid |-> m.pid])
              /\ UNCHANGED <<table, processes>>
  /\ found' = Tail(found)
  /\ UNCHANGED <<connected, pc, caller, shutdown, todo, killq, probe, edge,
                 liveAtPs, listed, signaled, launched, err, kills>>
  /\ UNCHANGED <<lastProbe, quiet, stdout>>

\* return command_pids, and the first line of the caller after the call
ReturnPs ==
  /\ pc = "found"
  /\ found = <<>>
  /\ IF caller = "run_commands"
       THEN /\ todo' = command_list
            /\ pc' = "launch"
            /\ UNCHANGED <<killq, listed>>
       ELSE /\ killq' = KillOrder(command_pids)
            /\ listed' = SeqSet(KillOrder(command_pids))
            /\ pc' = IF KillOrder(command_pids) = <<>> THEN AfterKill ELSE "kill"
            /\ UNCHANGED todo
  /\ UNCHANGED <<table, processes, connected, caller, shutdown, found,
                 command_pids, probe, edge, liveAtPs, signaled, launched,
                 err, kills>>
  /\ UNCHANGED <<lastProbe, quiet, stdout>>

(***************************************************************************)
(* run_commands(): one pass of `for cmd in self.command_list`              *)
(***************************************************************************)
LaunchOk ==
  /\ pc = "launch"
  /\ todo # <<>>
  /\ LET c == Head(todo) IN
       IF c \in running_cmds(command_pids)
         THEN UNCHANGED <<table, processes, launched>>
         ELSE \E p \in Pids :
                /\ table[p] = NoProc
                /\ table' = [table EXCEPT ![p] = Entry(c, FALSE, TRUE)]
                /\ processes' = DictSet(processes, c, p)
                /\ launched' = [launched EXCEPT ![c] = @ + 1]
  /\ todo' = Tail(todo)
  /\ pc' = IF Tail(todo) = <<>> THEN "sleep" ELSE "launch"
  /\ UNCHANGED <<connected, caller, shutdown, found, command_pids, killq,
                 probe, edge, liveAtPs, listed, signaled, err, kills>>
  /\ UNCHANGED <<lastProbe, quiet, stdout>>

\* subprocess.Popen(cmd) raises (no such file, fork fails)
LaunchRaise ==
  /\ pc = "launch"
  /\ todo # <<>>
  /\ Head(todo) \notin running_cmds(command_pids)
  /\ Raise("spawn")
  /\ UNCHANGED <<table, processes, connected, caller, shutdown, found,
                 command_pids, todo, killq, probe, edge, liveAtPs, listed,
                 signaled, launched, kills>>
  /\ UNCHANGED <<lastProbe, quiet, stdout>>

Launch == LaunchOk \/ LaunchRaise

\* time.sleep(self.poll_rate)
Sleep ==
  /\ pc = "sleep"
  /\ pc' = "check"
  /\ ClearTick
  /\ UNCHANGED <<table, processes, connected, caller, shutdown, err, kills>>
  /\ lastProbe' = probe
  /\ UNCHANGED <<quiet, stdout>>

(***************************************************************************)
(* kill_processes(): one os.kill(pid, signal.SIGKILL)                      *)
(***************************************************************************)
Kill ==
  /\ pc = "kill"
  /\ killq # <<>>
  /\ LET p == Head(killq) IN
       IF table[p] = NoProc
         THEN \* ProcessLookupError
              /\ Raise("kill")
              /\ signaled' = signaled \cup {p}
              /\ UNCHANGED <<table, killq>>
         ELSE /\ signaled' = signaled \cup {p}
              /\ killq' = Tail(killq)
              /\ pc' = IF Tail(killq) = <<>> THEN AfterKill ELSE "kill"
              /\ IF IsLive(table[p])
                   THEN \E d \in Die(table[p]) : table' = [table EXCEPT ![p] = d]
                   ELSE UNCHANGED table
              /\ UNCHANGED err
  /\ UNCHANGED <<processes, connected, caller, shutdown, found, command_pids,
                 todo, probe, edge, liveAtPs, listed, launched, kills>>
  /\ UNCHANGED <<lastProbe, quiet, stdout>>

\* print("Connecting to VPN..."); self.connect_vpn()
ConnectVpn ==
  /\ pc = "connect"
  /\ \/ /\ pc' = "check"
        /\ ClearTick
        /\ lastProbe' = probe
        /\ UNCHANGED err
     \/ \* subprocess.call(['nordvpn', 'c']) cannot be executed
        /\ Raise("connect")
        /\ UNCHANGED <<found, command_pids, todo, killq, probe, edge, liveAtPs,
                       listed, signaled, launched, lastProbe>>
  /\ UNCHANGED <<table, processes, connected, caller, shutdown, kills>>
  /\ UNCHANGED <<quiet, stdout>>

(***************************************************************************)
(* The operating system, while the Sentry is alive                         *)
(***************************************************************************)
\* Somebody else starts a process whose command line contains a managed name.
EnvSpawn ==
  /\ pc # "done"
  /\ \E p \in Pids, c \in Cmds :
       /\ table[p] = NoProc
       /\ table' = [table EXCEPT ![p] = Entry(c, FALSE, FALSE)]
  /\ UNCHANGED loopVars

\* A live process exits on its own.
EnvExit ==
  /\ pc # "done"
  /\ \E p \in Pids :
       /\ IsLive(table[p])
       /\ \E d \in Die(table[p]) : table' = [table EXCEPT ![p] = d]
  /\ UNCHANGED loopVars

\* The parent of a zombie that is not the Sentry's child collects it.
EnvReap ==
  /\ pc # "done"
  /\ \E p \in Pids :
       /\ table[p] # NoProc /\ table[p].defunct /\ ~table[p].child
       /\ table' = [table EXCEPT ![p] = NoProc]
  /\ UNCHANGED loopVars

Next ==
  \/ CheckVpn
  \/ ParsePs
  \/ HandleFound
  \/ ReturnPs
  \/ Launch
  \/ Sleep
  \/ Kill
  \/ ConnectVpn
  \/ Finally
  \/ Interrupt
  \/ EnvSpawn
  \/ EnvExit
  \/ EnvReap

Spec == Init /\ [][Next]_vars

(***************************************************************************)
(* The loop under a tunnel that stays up: every probe answers "Connected", *)
(* no external command fails and nobody interrupts.  The process table may *)
(* hold anything other parties left in it, with room in the pid space for  *)
(* each command that is not in it.  The Sentry is a thread that keeps      *)
(* running, so its next step is taken whenever it stays possible.          *)
(***************************************************************************)
ExternalEntries == {NoProc} \cup {Entry(c, d, FALSE) : c \in Cmds, d \in BOOLEAN}

HasRoom(t) ==
  Cardinality({p \in Pids : t[p] = NoProc})
    >= Cardinality({c \in Cmds : \A p \in Pids : t[p].cmd # c})

InitLive ==
  /\ table \in {t \in [Pids -> ExternalEntries] : HasRoom(t)}
  /\ processes = EmptyDict
  /\ connected = FALSE
  /\ pc = "check"
  /\ caller = "none"
  /\ shutdown = FALSE
  /\ found = <<>>
  /\ command_pids = <<>>
  /\ todo = <<>>
  /\ killq = <<>>
  /\ probe = "none"
  /\ edge = "none"
  /\ liveAtPs = {}
  /\ listed = {}
  /\ signaled = {}
  /\ launched = NoLaunch
  /\ err = "none"
  /\ kills = 0
  /\ lastProbe = "none"
  /\ quiet = 0
  /\ stdout = <<>>

ConnectedTick ==
  \/ Probe("Connected")
  \/ ParsePsOk
  \/ HandleFound
  \/ ReturnPs
  \/ LaunchOk
  \/ Sleep

LiveNext ==
  \/ ConnectedTick
  \/ EnvExit
  \/ EnvReap

LiveSpec == InitLive /\ [][LiveNext]_vars /\ WF_vars(ConnectedTick)

(***************************************************************************)
(* The two parsers on text.  A text is a tuple of one-character strings;   *)
(* stdout holds what the external command wrote, piece by piece, and       *)
(* Decode(stdout) is `result.stdout.decode('utf-8')`.                       *)
(***************************************************************************)
RECURSIVE Decode(_)
Decode(pieces) ==
  IF pieces = <<>> THEN <<>> ELSE Head(pieces) \o Decode(Tail(pieces))

\* \w, \d and \s of Python's re on the characters the texts are made of
WordChars ==
  { "A", "C", "D", "I", "M", "N", "O", "P", "S", "a", "b", "c", "d", "e",
    "f", "g", "i", "l", "n", "o", "p", "r", "s", "t", "u", "w", "x", "0",
    "1", "2", "3", "4", "5", "6", "7", "8", "9", "_" }

DigitChars == {"0", "1", "2", "3", "4", "5", "6", "7", "8", "9"}

SpaceChars == {" ", "\t", "\n"}

\* `sub in s` on str
Contains(s, sub) ==
  \E i \in 1..(Len(s) - Len(sub) + 1) : SubSeq(s, i, i + Len(sub) - 1) = sub

StartsAt(s, i, sub) ==
  i + Len(sub) - 1 <= Len(s) /\ SubSeq(s, i, i + Len(sub) - 1) = sub

(***************************************************************************)
(* check_vpn() on the output of `nordvpn status`                           *)
(***************************************************************************)
StatusPrefix == <<"S", "t", "a", "t", "u", "s", ":", " ">>

ConnectedWord == <<"C", "o", "n", "n", "e", "c", "t", "e", "d">>

\* (\w+): the longest run of word characters from position j
RECURSIVE WordRun(_, _)
WordRun(s, j) ==
  IF j <= Len(s) /\ s[j] \in WordChars THEN <<s[j]>> \o WordRun(s, j + 1) ELSE <<>>

\* The groups of a match of r"Status: (\w+)" that starts at position i, or
\* <<>> when the pattern does not match there.
MatchAt(s, i) ==
  IF StartsAt(s, i, StatusPrefix) /\ WordRun(s, i + Len(StatusPrefix)) # <<>>
    THEN <<WordRun(s, i + Len(StatusPrefix))>>
    ELSE <<>>

\* re.match: the pattern is tried at the start of the text only.
re_match(s, i) == IF i <= Len(s) THEN MatchAt(s, i) ELSE <<>>

\* re.search(...) and `groups = () if match is None else match.groups()`:
\* the pattern is tried at every position from i on, leftmost match wins.
RECURSIVE re_search(_, _)
re_search(s, i) ==
  IF i > Len(s) THEN <<>>
  ELSE IF MatchAt(s, i) # <<>> THEN MatchAt(s, i)
  ELSE re_search(s, i + 1)

\* return "Connected" in groups
check_vpn_output(output) ==
  LET groups == re_search(output, 1)
  IN \E k \in 1..Len(groups) : groups[k] = ConnectedWord

MaxChunks == 4

\* The pieces `nordvpn status` output is put together from.
StatusChunks ==
  { <<"S", "t", "a", "t", "u", "s", ":", " ">>,
    <<"C", "o", "n", "n", "e", "c", "t", "e", "d">>,
    <<"D", "i", "s", "c", "o", "n", "n", "e", "c", "t", "e", "d">>,
    <<"C", "o", "n", "n", "e", "c", "t", "i", "n", "g">>,
    <<"c", "o", "n", "n", "e", "c", "t", "e", "d">>,
    <<"\n">>,
    <<"-">>,
    <<"2">>,
    <<"S", "t", "a", "t", "u", "s", ":">> }

InitStatus ==
  /\ table = [p \in Pids |-> NoProc]
  /\ processes = EmptyDict
  /\ connected = FALSE
  /\ pc = "stdout"
  /\ caller = "check_vpn"
  /\ shutdown = FALSE
  /\ found = <<>>
  /\ command_pids = <<>>
  /\ todo = <<>>
  /\ killq = <<>>
  /\ probe = "none"
  /\ edge = "none"
  /\ liveAtPs = {}
  /\ listed = {}
  /\ signaled = {}
  /\ launched = NoLaunch
  /\ err = "none"
  /\ kills = 0
  /\ lastProbe = "none"
  /\ quiet = 0
  /\ stdout = <<>>

\* `nordvpn status` writes one more piece of its output.
StatusWrite ==
  /\ pc = "stdout"
  /\ Len(stdout) < MaxChunks
  /\ \E piece \in StatusChunks : stdout' = Append(stdout, piece)
  /\ UNCHANGED <<table, processes, connected, pc, caller, shutdown, found,
                 command_pids, todo, killq, probe, edge, liveAtPs, listed,
                 signaled, launched, err, kills, lastProbe, quiet>>

\* check_vpn() returns on the output written so far.
CheckVpnReturn ==
  /\ pc = "stdout"
  /\ pc' = "returned"
  /\ probe' = IF check_vpn_output(Decode(stdout)) THEN "connected" ELSE "disconnected"
  /\ UNCHANGED <<table, processes, connected, caller, shutdown, found,
                 command_pids, todo, killq, edge, liveAtPs, listed, signaled,
                 launched, err, kills, lastProbe, quiet, stdout>>

StatusNext == StatusWrite \/ CheckVpnReturn

StatusSpec == InitStatus /\ [][StatusNext]_vars

(***************************************************************************)
(* parse_ps() on the output of `ps -x`                                     *)
(***************************************************************************)
DefunctMark == <<"<", "d", "e", "f", "u", "n", "c", "t", ">">>

\* The managed commands as text.
CmdText ==
  [c \in Cmds |-> IF c = "deluged" THEN <<"d", "e", "l", "u", "g", "e", "d">>
                  ELSE <<"d", "e", "l", "u", "g", "e", "-", "w", "e", "b">>]

\* output.split('\n')
RECURSIVE Split(_, _)
Split(s, cur) ==
  IF s = <<>> THEN <<cur>>
  ELSE IF Head(s) = "\n" THEN <<cur>> \o Split(Tail(s), <<>>)
  ELSE Split(Tail(s), Append(cur, Head(s)))

\* The first position from i on whose character is not in the class.
RECURSIVE Skip(_, _, _)
Skip(s, i, class) ==
  IF i <= Len(s) /\ s[i] \in class THEN Skip(s, i + 1, class) ELSE i

DigitVal(ch) ==
  CHOOSE n \in 0..9 : <<"0", "1", "2", "3", "4", "5", "6", "7", "8", "9">>[n + 1] = ch

\* int(pid)
RECURSIVE int(_)
int(ds) ==
  IF ds = <<>> THEN 0 ELSE 10 * int(SubSeq(ds, 1, Len(ds) - 1)) + DigitVal(ds[Len(ds)])

\* re.fullmatch(r"^\s*(\d+) (.*)$", line): <<>> for None, else the groups.
fullmatch(line) ==
  LET i == Skip(line, 1, SpaceChars)
      j == Skip(line, i, DigitChars)
  IN IF j > i /\ j <= Len(line) /\ line[j] = " "
       THEN <<[pid |-> SubSeq(line, i, j - 1), details |-> SubSeq(line, j + 1, Len(line))]>>
       ELSE <<>>

\* `for cmd in self.command_list: if cmd in details: processes_found.append`
RECURSIVE MatchCmds(_, _)
MatchCmds(g, cmds) ==
  IF cmds = <<>> THEN <<>>
  ELSE (IF Contains(g.details, CmdText[Head(cmds)])
          THEN <<[cmd |-> Head(cmds), pid |-> int(g.pid),
                  defunct |-> Contains(g.details, DefunctMark)]>>
          ELSE <<>>) \o MatchCmds(g, Tail(cmds))

\* parse_ps, first loop, over the lines of the output
RECURSIVE FirstLoop(_)
FirstLoop(ls) ==
  IF ls = <<>> THEN <<>>
  ELSE (IF fullmatch(Head(ls)) # <<>>
          THEN MatchCmds(fullmatch(Head(ls))[1], command_list)
          ELSE <<>>) \o FirstLoop(Tail(ls))

\* parse_ps, second loop: the result, and self.processes after the pops.
RECURSIVE SecondLoop(_, _, _)
SecondLoop(fnd, procs, acc) ==
  IF fnd = <<>> THEN [command_pids |-> acc, processes |-> procs]
  ELSE IF IsReap(Head(fnd), procs)
    THEN SecondLoop(Tail(fnd), DictPop(procs, Head(fnd).cmd), acc)
    ELSE SecondLoop(Tail(fnd), procs,
                    Append(acc, [cmd |-> Head(fnd).cmd, pid |-> Head(fnd).pid]))

MaxLines == 2

\* Lines `ps -x` can print.
PsLines ==
  { <<" ", " ", "P", "I", "D", " ", "C", "O", "M", "M", "A", "N", "D">>,
    <<" ", " ", "1", "2", "3", " ", "d", "e", "l", "u", "g", "e", "d", " ", "-", "-", "f", "l", "a", "g">>,
    <<" ", "4", "5", "6", " ", "u", "n", "r", "e", "l", "a", "t", "e", "d", "-", "p", "r", "o", "c">>,
    <<"7", " ", "d", "e", "l", "u", "g", "e", "-", "w", "e", "b">>,
    <<" ", "8", "8", " ", "[", "d", "e", "l", "u", "g", "e", "d", "]", " ", "<", "d", "e", "f", "u", "n", "c", "t", ">">>,
    <<"0", "3", "1", " ", "d", "e", "l", "u", "g", "e", "-", "w", "e", "b", " ", "<", "d", "e", "f", "u", "n", "c", "t", ">">>,
    <<"9", " ", "d", "e", "l", "u", "g", "e", "d", " ", "d", "e", "l", "u", "g", "e", "-", "w", "e", "b">>,
    <<"1", "2", "d", "e", "l", "u", "g", "e", "d">>,
    <<"x", " ", "5", " ", "d", "e", "l", "u", "g", "e", "d">>,
    <<>> }

Newline == <<"\n">>

\* A handle of this Sentry; its process is not part of the text.
HandleSets == {[c \in H |-> 1] : H \in SUBSET Cmds}

InitPs ==
  /\ table = [p \in Pids |-> NoProc]
  /\ processes \in HandleSets
  /\ connected = FALSE
  /\ pc = "stdout"
  /\ caller = "parse_ps"
  /\ shutdown = FALSE
  /\ found = <<>>
  /\ command_pids = <<>>
  /\ todo = <<>>
  /\ killq = <<>>
  /\ probe = "none"
  /\ edge = "none"
  /\ liveAtPs = {}
  /\ listed = {}
  /\ signaled = {}
  /\ launched = NoLaunch
  /\ err = "none"
  /\ kills = 0
  /\ lastProbe = "none"
  /\ quiet = 0
  /\ stdout = <<>>

\* `ps -x` prints one more line.
PsWrite ==
  /\ pc = "stdout"
  /\ Len(stdout) < MaxLines
  /\ \E line \in PsLines : stdout' = Append(stdout, line \o Newline)
  /\ UNCHANGED <<table, processes, connected, pc, caller, shutdown, found,
                 command_pids, todo, killq, probe, edge, liveAtPs, listed,
                 signaled, launched, err, kills, lastProbe, quiet>>

\* parse_ps() returns on the output printed so far.
ParsePsReturn ==
  /\ pc = "stdout"
  /\ pc' = "returned"
  /\ LET fnd == FirstLoop(Split(Decode(stdout), <<>>))
         r == SecondLoop(fnd, processes, <<>>)
     IN /\ found' = fnd
        /\ command_pids' = r.command_pids
        /\ processes' = r.processes
  /\ UNCHANGED <<table, connected, caller, shutdown, todo, killq, probe, edge,
                 liveAtPs, listed, signaled, launched, err, kills, lastProbe,
                 quiet, stdout>>

PsNext == PsWrite \/ ParsePsReturn

PsSpec == InitPs /\ [][PsNext]_vars

(***************************************************************************)
(* Properties                                                              *)
(***************************************************************************)
HasLive(c) == \E p \in Pids : IsLive(table[p]) /\ table[p].cmd = c

LivePidsAtPs == {e.pid : e \in liveAtPs}

LiveCmdsAtPs == {e.cmd : e \in liveAtPs}

\* run() has left loop(): it is in, or past, its finally clause.
Stopped == shutdown \/ pc \in {"finally", "done"}

\* C1: when a disconnected tick is over (kill_processes returned, or its
\* os.kill raised), every pid that was live under a managed name when the
\* tick listed the table has been sent SIGKILL in the tick, and the tick
\* launched nothing.
C1_DisconnectedTickKillsAll ==
  (probe = "disconnected" /\ (pc = "connect" \/ (pc = "finally" /\ err = "kill")))
    => (LivePidsAtPs \subseteq signaled /\ launched = NoLaunch)

\* C2: when run_commands of a connected tick has returned, it has issued
\* exactly one launch for each managed command that had no live process when
\* the tick listed the table, and none for a command that had one.
C2_OneLaunchPerMissingCommand ==
  (probe = "connected" /\ pc = "sleep")
    => \A c \in Cmds : launched[c] = IF c \in LiveCmdsAtPs THEN 0 ELSE 1

\* C3: with the tunnel up for good and no command failing, every managed
\* command eventually has a live process, whatever the table held before.
C3_EventuallyRelaunched == \A c \in Cmds : <>HasLive(c)

C5_ProbeFailureIsDisconnectedTick ==
  (probe = "failed" \/ err = "probe")
    => (~Stopped /\ caller = "kill_processes" /\ launched = NoLaunch)

\* C6: os.kill on a pid that is gone is tolerated: the loop keeps running
\* and the pids still in the listing get their signal.
C6_StalePidTolerated ==
  err = "kill" => (~Stopped /\ (pc = "connect" => listed \subseteq signaled))

\* C7: when run() is over, every pid its shutdown Kill-all listed has been
\* sent SIGKILL.
C7_CleanupCompletes == pc = "done" => listed \subseteq signaled

\* C8: the tick never waits on a handle whose process is still live (the
\* wait of a reap returns at once).
C8_NeverWaitsOnLiveHandle ==
  ~(/\ ~shutdown
    /\ pc = "found"
    /\ found # <<>>
    /\ IsReap(Head(found), processes)
    /\ IsLive(table[processes[Head(found).cmd]]))

\* C9: a failing process listing makes the tick skip reconciliation (no
\* launch, no signal) and the loop keeps running.
C9_ListingFailureSkipsTick ==
  err = "ps" => (~Stopped /\ launched = NoLaunch /\ signaled = {})

\* C10: a launch that fails to spawn records no handle and the loop keeps
\* running, so that the launch is tried again on a later connected tick.
C10_SpawnFailureRetried ==
  err = "spawn" => (~Stopped /\ Head(todo) \notin DOMAIN processes)

ChildrenOf(c) == {p \in Pids : table[p].child /\ table[p].cmd = c}

\* C11: the keys of self.processes are managed commands, and a command never
\* has more than one handle: at most one process launched for it has not
\* been reaped yet.
C11_HandleKeys ==
  /\ DOMAIN processes \subseteq Cmds
  /\ \A c \in Cmds : Cardinality(ChildrenOf(c)) <= 1

\* Both managed commands have been launched and each has its one handle.
C11_Witness ==
  /\ DOMAIN processes = Cmds
  /\ \A c \in Cmds : ChildrenOf(c) = {processes[c]}

\* C12: the result of parse_ps never holds the pid of an entry that the
\* listing showed as <defunct>: every pid it returns was live in the listing.
C12_NoDefunctPidReturned ==
  \A i \in 1..Len(command_pids) : command_pids[i].pid \in LivePidsAtPs

\* C13: a tick prints the connect message exactly when its probe says
\* connected and the tick before it did not (or there was none), and the
\* disconnect message exactly when its probe says disconnected and the tick
\* before it was connected; a tick prints at most one of the two, and the
\* disconnected ticks at the start print nothing.
C13_EdgeLoggedOncePerTransition ==
  probe \in {"connected", "disconnected"} =>
    /\ edge = "connect" <=> (probe = "connected" /\ lastProbe # "connected")
    /\ edge = "disconnect" <=> (probe = "disconnected" /\ lastProbe = "connected")

\* A disconnected tick that follows a connected one has printed the
\* disconnect message and is in its Kill-all.
C13_Witness ==
  /\ probe = "disconnected" /\ lastProbe = "connected" /\ edge = "disconnect"
  /\ caller = "kill_processes" /\ ~shutdown

\* C14: a kill_processes call whose listing shows no process under a managed
\* name (quiet counts such calls in a row, the second included) sends no
\* signal, raises nothing and leaves self.processes as it was.
C14_QuietKillAllIdempotent ==
  [][(caller = "kill_processes" /\ quiet >= 1 /\ pc \in {"found", "kill"})
       => /\ processes' = processes
          /\ signaled = {} /\ signaled' = {}
          /\ pc' # "kill"
          /\ err' \in {err, "interrupt"}]_vars

\* The second of two Kill-all calls in a row that found the table empty has
\* returned to loop() without a signal.
C14_Witness ==
  /\ quiet = 2 /\ pc = "connect" /\ caller = "kill_processes"
  /\ signaled = {} /\ err = "none"

\* C16: a disconnected tick runs kill_processes, then connect_vpn once, and
\* goes straight back to check_vpn without sleeping; time.sleep is reached
\* only at the end of a connected tick, after run_commands has gone through
\* command_list; connect_vpn is never reached on a connected tick.
C16_TickOrdering ==
  [][/\ (pc' = "check" /\ pc # "check")
          => \/ pc = "sleep" /\ probe = "connected"
             \/ pc = "connect" /\ probe = "disconnected"
     /\ (pc' = "sleep" /\ pc # "sleep")
          => /\ pc = "launch" /\ caller = "run_commands" /\ probe = "connected"
             /\ todo' = <<>>
     /\ (pc' = "connect" /\ pc # "connect")
          => /\ pc \in {"found", "kill"} /\ caller = "kill_processes"
             /\ probe = "disconnected" /\ killq' = <<>>
     /\ pc = "connect" => probe = "disconnected"
     /\ pc = "sleep" => probe = "connected"]_vars

\* A disconnected tick has signalled a process and is about to call
\* connect_vpn.
C16_Witness ==
  /\ pc = "connect" /\ probe = "disconnected" /\ ~shutdown
  /\ signaled # {} /\ killq = <<>>

\* C17: run_commands launches a managed command only when self.processes
\* holds no handle for it and its listing showed no live process of it, and
\* the launch records the handle of the new process; so a launch never
\* overwrites a handle that has not been reaped.
C17_LaunchOnlyWhenAbsent ==
  [][\A c \in Cmds :
       launched'[c] > launched[c]
         => /\ c \notin DOMAIN processes
            /\ c \notin LiveCmdsAtPs
            /\ c \in DOMAIN processes'
            /\ table[processes'[c]] = NoProc
            /\ table'[processes'[c]] = Entry(c, FALSE, TRUE)]_vars

\* A connected tick that follows a connected tick has launched a command
\* (its earlier process is gone and reaped) and holds the new handle.
C17_Witness ==
  /\ probe = "connected" /\ lastProbe = "connected" /\ pc \in {"launch", "sleep"}
  /\ \E c \in Cmds :
       /\ launched[c] = 1
       /\ c \in DOMAIN processes
       /\ table[processes[c]].child

\* C18 as stated: once run() is over (its shutdown kill_processes has
\* returned or raised), self.processes holds no handle.
C18_NoHandleAfterShutdown == pc = "done" => DOMAIN processes = {}

\* C18, amended: a handle for a command is held only for a process that the
\* loop launched for it and has not reaped, and a handle is dropped only by
\* the reap in parse_ps (wait, then pop); the shutdown kill_processes signals
\* without waiting, so run() can end with handles still held.
C18_HandleLifecycle ==
  /\ [](\A c \in DOMAIN processes :
          table[processes[c]].child /\ table[processes[c]].cmd = c)
  /\ [][\A c \in DOMAIN processes :
          c \notin DOMAIN processes'
            => /\ pc = "found" /\ IsReap(Head(found), processes)
               /\ Head(found).cmd = c
               /\ table'[processes[c]] = NoProc]_vars

\* run() is over, its shutdown Kill-all has signalled the launched process,
\* and the handle of that process, now a zombie, is still held.
C18_Witness ==
  /\ pc = "done" /\ err = "interrupt"
  /\ \E c \in DOMAIN processes :
       /\ processes[c] \in signaled
       /\ table[processes[c]] = Entry(c, TRUE, TRUE)

\* C20: a tick whose probe said connected sends no SIGKILL; until shutdown,
\* signals are sent only by the kill_processes of a disconnected tick, and
\* every signalled pid is in the result of the parse_ps call made by that
\* same kill_processes call.
C20_SignalsOnlyFromOwnListing ==
  /\ (probe = "connected" /\ ~shutdown) => signaled = {}
  /\ signaled # {}
       => /\ caller = "kill_processes"
          /\ shutdown \/ probe = "disconnected"
          /\ signaled \subseteq {command_pids[i].pid : i \in 1..Len(command_pids)}

\* A disconnected tick is in the middle of its Kill-all: one listed pid has
\* been signalled and another is still to be signalled.
C20_Witness ==
  /\ probe = "disconnected" /\ ~shutdown /\ pc = "kill"
  /\ Cardinality(signaled) = 1 /\ killq # <<>>

\* The positions of the text where a field `Status: <word>` starts.
Fields(s) ==
  {i \in 1..Len(s) :
     /\ StartsAt(s, i, StatusPrefix)
     /\ i + Len(StatusPrefix) <= Len(s)
     /\ s[i + Len(StatusPrefix)] \in WordChars}

\* The word of the first field: all the word characters that follow its
\* prefix, up to the end of the text or a character that is not one.
CapturedWord(s) ==
  LET i == CHOOSE i \in Fields(s) : \A k \in Fields(s) : i <= k
      a == i + Len(StatusPrefix)
      b == CHOOSE b \in a..Len(s) :
             /\ \A k \in a..b : s[k] \in WordChars
             /\ b = Len(s) \/ s[b + 1] \notin WordChars
  IN SubSeq(s, a, b)

\* C15: check_vpn returns True exactly when the output holds a field
\* `Status: <word>` and the word captured (that of the first such field) is
\* "Connected"; on every other output, the empty one included, it returns
\* False, and it always returns.
C15_ConnectedIffCapturedWord ==
  (pc = "returned" /\ caller = "check_vpn")
    => /\ probe \in {"connected", "disconnected"}
       /\ probe = "connected"
            <=> /\ Fields(Decode(stdout)) # {}
                /\ CapturedWord(Decode(stdout)) = ConnectedWord

\* check_vpn has returned True on an output whose field does not start the
\* text and is followed by more text.
C15_Witness ==
  /\ pc = "returned" /\ caller = "check_vpn" /\ probe = "connected"
  /\ Len(stdout) = 4 /\ stdout[1] # StatusPrefix /\ stdout[4] # ConnectedWord

\* The lines `ps -x` printed, without their newline.
PrintedLines == [k \in 1..Len(stdout) |-> SubSeq(stdout[k], 1, Len(stdout[k]) - 1)]

\* '<optional whitespace><digits><space><rest>': the digits end at j.
DigitsEnd(line) ==
  {j \in 1..(Len(line) - 1) :
     /\ line[j + 1] = " "
     /\ \E i \in 1..j :
          /\ \A k \in 1..(i - 1) : line[k] \in SpaceChars
          /\ \A k \in i..j : line[k] \in DigitChars}

WellFormed(line) == DigitsEnd(line) # {}

Rest(line) ==
  LET j == CHOOSE j \in DigitsEnd(line) : TRUE IN SubSeq(line, j + 2, Len(line))

PidOf(line) ==
  LET j == CHOOSE j \in DigitsEnd(line) : TRUE
      i == CHOOSE i \in 1..j : /\ \A k \in i..j : line[k] \in DigitChars
                               /\ i = 1 \/ line[i - 1] \notin DigitChars
  IN int(SubSeq(line, i, j))

\* The pids of the well-formed, non-defunct lines whose rest contains c.
RECURSIVE ExpectedPids(_, _)
ExpectedPids(ls, c) ==
  IF ls = <<>> THEN <<>>
  ELSE (IF /\ WellFormed(Head(ls))
           /\ Contains(Rest(Head(ls)), CmdText[c])
           /\ ~Contains(Rest(Head(ls)), DefunctMark)
          THEN <<PidOf(Head(ls))>>
          ELSE <<>>) \o ExpectedPids(Tail(ls), c)

\* C19: for every printed process table, parse_ps returns under each managed
\* name exactly the pids of the well-formed non-defunct lines whose rest
\* contains the name, in the order of the lines, and no entry for a name
\* without such a line.
C19_ListsNonDefunctMatches ==
  (pc = "returned" /\ caller = "parse_ps")
    => \A c \in Cmds : PidsOf(command_pids, c) = ExpectedPids(PrintedLines, c)

====
